---- MODULE Spec2Model ----
\* Model of the trace-driven set-associative cache simulator (src/main.py):
\* class Cache (address decoding, lookup, replacement, 3C miss
\* classification) driven by the read loop of main().
EXTENDS Integers, Sequences, FiniteSets, TLC

\* ---------------------------------------------------------------- bounds
MaxNsets == 3
MaxBsize == 2
MaxAssoc == 2
MaxAddr == 4
MaxAccesses == 5
CliMaxNsets == 3
CliMaxBsize == 1
CliMaxAssoc == 1
DecMaxNsets == 5
DecMaxBsize == 5
DecMaxAddr == 17

Addresses == 0..MaxAddr
Policies == {"R", "F", "L"}

VARIABLES
    nsets, bsize, assoc, subst,      \* configuration fields of Cache
    cache,                           \* self.cache: one list of lines per set
    total_accesses, hits, misses,
    compulsory_misses, capacity_misses, conflict_misses,
    seen_tags,                       \* set of <<tag, index>>
    pc,                              \* position of main(): "run", "aborted", "done"
    trace,                           \* the addresses read from the file so far
    outcome,                         \* path taken by the last access_cache call
    evicted,                         \* lines the last access_cache call removed
    argv,                            \* sys.argv as main() receives it
    exit_status,                     \* process exit status, -1 while running
    diag,                            \* which diagnostic message was printed
    stats_printed,                   \* print_stats has been called
    decoded                          \* results of get_address_components calls

vars == <<nsets, bsize, assoc, subst, cache, total_accesses, hits, misses,
          compulsory_misses, capacity_misses, conflict_misses, seen_tags,
          pc, trace, outcome, evicted, argv, exit_status, diag,
          stats_printed, decoded>>

config == <<nsets, bsize, assoc, subst>>

cli == <<argv, exit_status, diag, stats_printed>>

\* ------------------------------------------------------- address decoding
RECURSIVE bit_length(_)
bit_length(n) ==
    IF n <= 0 THEN 0 ELSE 1 + bit_length(n \div 2)

log2(x) ==
    bit_length(x - 1)

address_bits == 32

offset_bits == log2(bsize)

index_bits == log2(nsets)

tag_bits == address_bits - offset_bits - index_bits

shl(a, n) ==
    a * (2 ^ n)

shr(a, n) ==
    a \div (2 ^ n)

RECURSIVE bit_and(_, _)
bit_and(a, b) ==
    IF a = 0 \/ b = 0 THEN 0
    ELSE (IF a % 2 = 1 /\ b % 2 = 1 THEN 1 ELSE 0) + 2 * bit_and(a \div 2, b \div 2)

get_index_maskOffByOne(address) ==
    LET index_mask == shl(1, index_bits)
    IN  bit_and(shr(address, offset_bits), index_mask)

get_index(address) ==
    LET index_mask == shl(1, index_bits) - 1
    IN  bit_and(shr(address, offset_bits), index_mask)

get_tag(address) ==
    shr(address, offset_bits + index_bits)

get_address_components(address) ==
    <<get_tag(address), get_index(address)>>

\* ------------------------------------------------------------ set lookup
\* position (1-based) of the first valid line holding tag, 0 when none
RECURSIVE hit_scan(_, _, _)
hit_scan(set_content, tag, i) ==
    IF i > Len(set_content) THEN 0
    ELSE IF set_content[i].tag = tag /\ set_content[i].valid THEN i
    ELSE hit_scan(set_content, tag, i + 1)

hit_pos_firstOnly(set_content, tag) ==
    IF set_content # <<>> /\ set_content[1].tag = tag /\ set_content[1].valid
    THEN 1 ELSE 0

hit_pos(set_content, tag) ==
    hit_scan(set_content, tag, 1)

\* list.remove(entry): drops the first element equal to entry
RECURSIVE list_remove(_, _)
list_remove(s, e) ==
    IF s = <<>> THEN <<>>
    ELSE IF Head(s) = e THEN Tail(s)
    ELSE <<Head(s)>> \o list_remove(Tail(s), e)

touch_noLRUStamp(set_content, pos, now) ==
    IF subst = "F"
    THEN Append(list_remove(set_content, set_content[pos]), set_content[pos])
    ELSE set_content

touch_dropOnHit(set_content, pos, now) ==
    IF subst = "L"
    THEN [set_content EXCEPT ![pos].ts = now]
    ELSE IF subst = "F"
    THEN list_remove(set_content, set_content[pos])
    ELSE set_content

\* policy-specific bookkeeping on a hit
touch(set_content, pos, now) ==
    IF subst = "L"
    THEN [set_content EXCEPT ![pos].ts = now]
    ELSE IF subst = "F"
    THEN Append(list_remove(set_content, set_content[pos]), set_content[pos])
    ELSE set_content

\* ------------------------------------------------------------ replacement
\* the LRU scan: position (1-based) of the first line with the smallest ts
RECURSIVE lru_scan(_, _, _, _)
lru_scan(set_content, i, lru_idx, min_time) ==
    IF i > Len(set_content) THEN lru_idx
    ELSE IF set_content[i].ts < min_time
    THEN lru_scan(set_content, i + 1, i, set_content[i].ts)
    ELSE lru_scan(set_content, i + 1, lru_idx, min_time)

lru_victim(set_content) ==
    lru_scan(set_content, 2, 1, set_content[1].ts)

replace_popLast(set_content, new_entry, idx) ==
    IF subst = "R" THEN [set_content EXCEPT ![idx + 1] = new_entry]
    ELSE IF subst = "F"
    THEN Append(SubSeq(set_content, 1, Len(set_content) - 1), new_entry)
    ELSE [set_content EXCEPT ![Len(set_content)] = new_entry]

replace_dropLine(set_content, new_entry, idx) ==
    IF subst = "R" THEN [set_content EXCEPT ![idx + 1] = new_entry]
    ELSE Tail(set_content)

\* install into a full set; idx is the value random.randint returned
replace(set_content, new_entry, idx) ==
    IF subst = "R" THEN [set_content EXCEPT ![idx + 1] = new_entry]
    ELSE IF subst = "F" THEN Append(Tail(set_content), new_entry)
    ELSE [set_content EXCEPT ![lru_victim(set_content)] = new_entry]

install_evictEarly(set_content, new_entry, set_full, idx) ==
    IF set_content = <<>> THEN Append(set_content, new_entry)
    ELSE replace(set_content, new_entry, 0)

install_alwaysAppend(set_content, new_entry, set_full, idx) ==
    Append(set_content, new_entry)

\* add the new line (lines 78-97)
install(set_content, new_entry, set_full, idx) ==
    IF ~set_full THEN Append(set_content, new_entry)
    ELSE replace(set_content, new_entry, idx)

\* --------------------------------------------------------- classification
RECURSIVE sum_len(_, _)
sum_len(c, i) ==
    IF i >= nsets THEN 0 ELSE Len(c[i]) + sum_len(c, i + 1)

is_set_full(set_content) ==
    Len(set_content) >= assoc

is_cache_full_oneSet(c) ==
    sum_len(c, 0) >= assoc

is_cache_full(c) ==
    sum_len(c, 0) >= nsets * assoc

classify_dropConflict(is_compulsory, set_full, cache_full) ==
    IF is_compulsory THEN [kind |-> "compulsory", comp |-> 1, cap |-> 0, conf |-> 0]
    ELSE IF set_full /\ cache_full
    THEN [kind |-> "capacity", comp |-> 0, cap |-> 1, conf |-> 0]
    ELSE IF set_full THEN [kind |-> "conflict", comp |-> 0, cap |-> 0, conf |-> 0]
    ELSE [kind |-> "default", comp |-> 1, cap |-> 0, conf |-> 0]

classify_fullFirst(is_compulsory, set_full, cache_full) ==
    IF set_full /\ cache_full
    THEN [kind |-> "capacity", comp |-> 0, cap |-> 1, conf |-> 0]
    ELSE IF is_compulsory
    THEN [kind |-> "compulsory", comp |-> 1, cap |-> 0, conf |-> 0]
    ELSE IF set_full THEN [kind |-> "conflict", comp |-> 0, cap |-> 0, conf |-> 1]
    ELSE [kind |-> "default", comp |-> 1, cap |-> 0, conf |-> 0]

classify_recount(is_compulsory, set_full, cache_full) ==
    IF is_compulsory THEN [kind |-> "compulsory", comp |-> 1, cap |-> 0, conf |-> 0]
    ELSE IF set_full /\ cache_full
    THEN [kind |-> "capacity", comp |-> 1, cap |-> 0, conf |-> 0]
    ELSE IF set_full THEN [kind |-> "conflict", comp |-> 0, cap |-> 0, conf |-> 1]
    ELSE [kind |-> "default", comp |-> 1, cap |-> 0, conf |-> 0]

\* which counter a miss increments, and by which branch
classify(is_compulsory, set_full, cache_full) ==
    IF is_compulsory THEN [kind |-> "compulsory", comp |-> 1, cap |-> 0, conf |-> 0]
    ELSE IF set_full /\ cache_full
    THEN [kind |-> "capacity", comp |-> 0, cap |-> 1, conf |-> 0]
    ELSE IF set_full THEN [kind |-> "conflict", comp |-> 0, cap |-> 0, conf |-> 1]
    ELSE [kind |-> "default", comp |-> 1, cap |-> 0, conf |-> 0]

record_seen_overwrite(seen, tag, index) ==
    {<<tag, index>>}

\* self.seen_tags.add((tag, index))
record_seen(seen, tag, index) ==
    seen \cup {<<tag, index>>}

\* ------------------------------------------------------------------ state
Range(s) == {s[i] : i \in 1..Len(s)}

\* the lines of old whose tag is no longer held by new
Gone(old, new) ==
    {e \in Range(old) : \A f \in Range(new) : f.tag # e.tag}

\* a command-line token: an integer literal or something int() rejects
Num(v) == [num |-> TRUE, val |-> v]

NotANumber == [num |-> FALSE, val |-> 0]

\* str.upper() on the policy tokens used here
upper(token) ==
    IF token = "r" THEN "R"
    ELSE IF token = "f" THEN "F"
    ELSE IF token = "l" THEN "L"
    ELSE IF token = "x" THEN "X"
    ELSE token

Init ==
    /\ nsets \in 1..MaxNsets
    /\ bsize \in 1..MaxBsize
    /\ assoc \in 1..MaxAssoc
    /\ subst \in Policies
    /\ cache = [i \in 0..(nsets - 1) |-> <<>>]
    /\ total_accesses = 0
    /\ hits = 0
    /\ misses = 0
    /\ compulsory_misses = 0
    /\ capacity_misses = 0
    /\ conflict_misses = 0
    /\ seen_tags = {}
    /\ pc = "run"
    /\ trace = <<>>
    /\ outcome = "none"
    /\ evicted = {}
    /\ argv = [argc |-> 7, nsets |-> Num(nsets), bsize |-> Num(bsize),
               assoc |-> Num(assoc), subst |-> subst, flag |-> Num(0),
               file |-> "ok"]
    /\ exit_status = -1
    /\ diag = "none"
    /\ stats_printed = FALSE
    /\ decoded = <<>>

\* main() reads one more 4-byte record and hands it to access_cache
CanRead ==
    pc = "run" /\ Len(trace) < MaxAccesses

AccessHit_noCount(address) ==
    LET tag == get_tag(address)
        index == get_index(address)
    IN  /\ CanRead
        /\ index < nsets
        /\ hit_pos(cache[index], tag) # 0
        /\ total_accesses' = total_accesses + 1
        /\ cache' = [cache EXCEPT ![index] =
                        touch(@, hit_pos(@, tag), total_accesses + 1)]
        /\ trace' = Append(trace, address)
        /\ outcome' = "hit"
        /\ evicted' = Gone(cache[index], cache'[index])
        /\ UNCHANGED <<config, hits, misses, compulsory_misses, capacity_misses,
                       conflict_misses, seen_tags, pc, cli, decoded>>

\* access_cache, path through the hit loop (lines 43-56)
AccessHit(address) ==
    LET tag == get_tag(address)
        index == get_index(address)
    IN  /\ CanRead
        /\ index < nsets
        /\ hit_pos(cache[index], tag) # 0
        /\ total_accesses' = total_accesses + 1
        /\ hits' = hits + 1
        /\ cache' = [cache EXCEPT ![index] =
                        touch(@, hit_pos(@, tag), total_accesses + 1)]
        /\ trace' = Append(trace, address)
        /\ outcome' = "hit"
        /\ evicted' = Gone(cache[index], cache'[index])
        /\ UNCHANGED <<config, misses, compulsory_misses, capacity_misses,
                       conflict_misses, seen_tags, pc, cli, decoded>>

\* access_cache, miss handling (lines 43-48, 58-97)
AccessMiss(address, idx) ==
    LET tag == get_tag(address)
        index == get_index(address)
    IN  /\ CanRead
        /\ index < nsets
        /\ hit_pos(cache[index], tag) = 0
        /\ LET set_content == cache[index]
               is_compulsory == <<tag, index>> \notin seen_tags
               set_full == is_set_full(set_content)
               cache_full == is_cache_full(cache)
               c == classify(is_compulsory, set_full, cache_full)
               new_entry == [tag |-> tag, valid |-> TRUE, ts |-> total_accesses + 1]
           IN  /\ total_accesses' = total_accesses + 1
               /\ misses' = misses + 1
               /\ seen_tags' = record_seen(seen_tags, tag, index)
               /\ compulsory_misses' = compulsory_misses + c.comp
               /\ capacity_misses' = capacity_misses + c.cap
               /\ conflict_misses' = conflict_misses + c.conf
               /\ cache' = [cache EXCEPT ![index] =
                               install(set_content, new_entry, set_full, idx)]
               /\ outcome' = c.kind
               /\ evicted' = Gone(set_content, cache'[index])
        /\ trace' = Append(trace, address)
        /\ UNCHANGED <<config, hits, pc, cli, decoded>>

\* access_cache raising IndexError at self.cache[index] (line 45); main()
\* catches it and exits (lines 161-163)
AccessRaise(address) ==
    /\ CanRead
    /\ get_index(address) >= nsets
    /\ total_accesses' = total_accesses + 1
    /\ trace' = Append(trace, address)
    /\ outcome' = "raised"
    /\ evicted' = {}
    /\ pc' = "aborted"
    /\ exit_status' = 1
    /\ diag' = "read_error"
    /\ UNCHANGED <<config, cache, hits, misses, compulsory_misses,
                   capacity_misses, conflict_misses, seen_tags, argv,
                   stats_printed, decoded>>

\* end of file: the read loop breaks and print_stats runs
EndOfTrace ==
    /\ pc = "run"
    /\ pc' = "done"
    /\ stats_printed' = TRUE
    /\ exit_status' = 0
    /\ UNCHANGED <<config, cache, total_accesses, hits, misses,
                   compulsory_misses, capacity_misses, conflict_misses,
                   seen_tags, trace, outcome, evicted, argv, diag, decoded>>

Next ==
    \/ \E address \in Addresses : AccessHit(address)
    \/ \E address \in Addresses : \E idx \in 0..(assoc - 1) : AccessMiss(address, idx)
    \/ \E address \in Addresses : AccessRaise(address)
    \/ EndOfTrace

Spec == Init /\ [][Next]_vars

\* ------------------------------------------------------- command line
NumTokens(lo, hi) == {NotANumber} \cup {Num(v) : v \in lo..hi}

PolicyTokens == {"r", "F", "L", "x"}

check_args_noFlag(a) ==
    IF a.argc # 7 THEN "usage"
    ELSE IF ~a.nsets.num \/ ~a.bsize.num \/ ~a.assoc.num \/ ~a.flag.num
    THEN "invalid_numeric"
    ELSE IF a.nsets.val <= 0 \/ a.bsize.val <= 0 \/ a.assoc.val <= 0
    THEN "not_positive"
    ELSE IF upper(a.subst) \notin {"R", "F", "L"} THEN "bad_policy"
    ELSE "ok"

\* argument parsing and validation of main(): the diagnostic printed before
\* sys.exit(1), or "ok"
check_args(a) ==
    IF a.argc # 7 THEN "usage"
    ELSE IF ~a.nsets.num \/ ~a.bsize.num \/ ~a.assoc.num \/ ~a.flag.num
    THEN "invalid_numeric"
    ELSE IF a.nsets.val <= 0 \/ a.bsize.val <= 0 \/ a.assoc.val <= 0
    THEN "not_positive"
    ELSE IF upper(a.subst) \notin {"R", "F", "L"} THEN "bad_policy"
    ELSE IF a.flag.val \notin {0, 1} THEN "bad_flag"
    ELSE "ok"

\* the process as main() is entered: nothing constructed yet
CliInit ==
    /\ argv \in [argc : {6, 7, 8},
                 nsets : NumTokens(-1, CliMaxNsets),
                 bsize : NumTokens(0, CliMaxBsize),
                 assoc : NumTokens(0, CliMaxAssoc),
                 subst : PolicyTokens,
                 flag : NumTokens(0, 2),
                 file : {"ok", "missing"}]
    /\ pc = "start"
    /\ nsets = 0 /\ bsize = 0 /\ assoc = 0 /\ subst = ""
    /\ cache = <<>>
    /\ total_accesses = 0
    /\ hits = 0
    /\ misses = 0
    /\ compulsory_misses = 0
    /\ capacity_misses = 0
    /\ conflict_misses = 0
    /\ seen_tags = {}
    /\ trace = <<>>
    /\ outcome = "none"
    /\ evicted = {}
    /\ exit_status = -1
    /\ diag = "none"
    /\ stats_printed = FALSE
    /\ decoded = <<>>

\* main() lines 119-143: a rejected command line
ArgsRejected ==
    /\ pc = "start"
    /\ check_args(argv) # "ok"
    /\ pc' = "exit"
    /\ exit_status' = 1
    /\ diag' = check_args(argv)
    /\ UNCHANGED <<config, cache, total_accesses, hits, misses,
                   compulsory_misses, capacity_misses, conflict_misses,
                   seen_tags, trace, outcome, evicted, argv, stats_printed,
                   decoded>>

\* main() line 146: Cache(nsets, bsize, assoc, subst)
Construct ==
    /\ pc = "start"
    /\ check_args(argv) = "ok"
    /\ nsets' = argv.nsets.val
    /\ bsize' = argv.bsize.val
    /\ assoc' = argv.assoc.val
    /\ subst' = upper(upper(argv.subst))
    /\ cache' = [i \in 0..(argv.nsets.val - 1) |-> <<>>]
    /\ pc' = "open"
    /\ UNCHANGED <<total_accesses, hits, misses, compulsory_misses,
                   capacity_misses, conflict_misses, seen_tags, trace,
                   outcome, evicted, cli, decoded>>

\* main() lines 150, 158-160: open() raises FileNotFoundError
FileNotFound ==
    /\ pc = "open"
    /\ argv.file = "missing"
    /\ pc' = "exit"
    /\ exit_status' = 1
    /\ diag' = "not_found"
    /\ UNCHANGED <<config, cache, total_accesses, hits, misses,
                   compulsory_misses, capacity_misses, conflict_misses,
                   seen_tags, trace, outcome, evicted, argv, stats_printed,
                   decoded>>

\* main() line 150: the trace file is open
FileOpened ==
    /\ pc = "open"
    /\ argv.file = "ok"
    /\ pc' = "run"
    /\ UNCHANGED <<config, cache, total_accesses, hits, misses,
                   compulsory_misses, capacity_misses, conflict_misses,
                   seen_tags, trace, outcome, evicted, cli, decoded>>

\* main() lines 153-156, 161-163: the file ends with 1 to 3 bytes, f.read(4)
\* returns them and struct.unpack raises struct.error
ShortRecord ==
    /\ pc = "run"
    /\ pc' = "exit"
    /\ exit_status' = 1
    /\ diag' = "read_error"
    /\ UNCHANGED <<config, cache, total_accesses, hits, misses,
                   compulsory_misses, capacity_misses, conflict_misses,
                   seen_tags, trace, outcome, evicted, argv, stats_printed,
                   decoded>>

CliNext ==
    \/ ArgsRejected
    \/ Construct
    \/ FileNotFound
    \/ FileOpened
    \/ ShortRecord
    \/ \E address \in Addresses : AccessHit(address)
    \/ \E address \in Addresses : \E idx \in 0..(assoc - 1) : AccessMiss(address, idx)
    \/ \E address \in Addresses : AccessRaise(address)
    \/ EndOfTrace

CliSpec == CliInit /\ [][CliNext]_vars

\* ----------------------------------------------------- decoding alone
\* addresses below 2^31 (the model checker's integers are 32-bit signed)
DecAddresses ==
    0..DecMaxAddr \cup {255, 256, 65535, 65536, 1073741824, 2147483646, 2147483647}

DecodeInit ==
    /\ nsets \in 1..DecMaxNsets
    /\ bsize \in 1..DecMaxBsize
    /\ assoc = 1
    /\ subst = "L"
    /\ cache = [i \in 0..(nsets - 1) |-> <<>>]
    /\ total_accesses = 0
    /\ hits = 0
    /\ misses = 0
    /\ compulsory_misses = 0
    /\ capacity_misses = 0
    /\ conflict_misses = 0
    /\ seen_tags = {}
    /\ pc = "decode"
    /\ trace = <<>>
    /\ outcome = "none"
    /\ evicted = {}
    /\ argv = [argc |-> 7, nsets |-> Num(nsets), bsize |-> Num(bsize),
               assoc |-> Num(assoc), subst |-> subst, flag |-> Num(0),
               file |-> "ok"]
    /\ exit_status = -1
    /\ diag = "none"
    /\ stats_printed = FALSE
    /\ decoded = <<>>

\* one call of get_address_components
Decode(address) ==
    /\ pc = "decode"
    /\ Len(decoded) < 2
    /\ decoded' = Append(decoded, [address |-> address,
                                   tag |-> get_address_components(address)[1],
                                   index |-> get_address_components(address)[2]])
    /\ UNCHANGED <<config, cache, total_accesses, hits, misses,
                   compulsory_misses, capacity_misses, conflict_misses,
                   seen_tags, pc, trace, outcome, evicted, cli>>

DecodeNext ==
    \E address \in DecAddresses : Decode(address)

DecodeSpec == DecodeInit /\ [][DecodeNext]_vars

\* ------------------------------------------------------ derived quantities
Pair(address) == get_address_components(address)

\* the accesses that ran to completion
Completed ==
    IF pc = "aborted" THEN SubSeq(trace, 1, Len(trace) - 1) ELSE trace

PairsOf(s) == {Pair(s[i]) : i \in 1..Len(s)}

LastAddr == trace[Len(trace)]

LastTag == get_tag(LastAddr)

LastIndex == get_index(LastAddr)

MissKinds == {"compulsory", "capacity", "conflict", "default"}

Resident(index) == {e.tag : e \in Range(cache[index])}

\* C1: after every completed access_cache call hits + misses equals
\* total_accesses, for every configuration and trace.
C1_HitsPlusMisses ==
    pc # "aborted" => hits + misses = total_accesses

C1_Witness ==
    pc = "run" /\ hits > 0 /\ misses > 1 /\ outcome = "hit"

\* C2: after every access the three miss sub-counters add up to misses.
C2_MissBreakdown ==
    compulsory_misses + capacity_misses + conflict_misses = misses

C2_Witness ==
    compulsory_misses > 0 /\ capacity_misses > 0 /\ conflict_misses > 0

\* C3: under FIFO the line evicted by a miss on a full set is the one
\* installed earliest among the resident lines (a FIFO line's ts is the
\* access number of its installation), whatever hits came before.
C3_FifoEvictsEarliestInstalled ==
    (subst = "F" /\ outcome \in MissKinds /\ evicted # {})
        => \A v \in evicted : \A e \in Range(cache[LastIndex]) : v.ts < e.ts

\* C4: FIFO, one set of associativity k: k distinct tags fill the empty set,
\* then any number of hits on the k-1 tags other than the first, then a new
\* tag: the new tag evicts the first-inserted tag.
C4_Shape ==
    /\ subst = "F" /\ nsets = 1 /\ pc # "aborted"
    /\ Len(trace) > assoc
    /\ Cardinality({get_tag(trace[i]) : i \in 1..assoc}) = assoc
    /\ \A i \in (assoc + 1)..(Len(trace) - 1) :
           \E j \in 2..assoc : get_tag(trace[i]) = get_tag(trace[j])
    /\ \A j \in 1..(Len(trace) - 1) : get_tag(trace[j]) # LastTag

C4_FifoEvictsFirstInserted ==
    C4_Shape => /\ {v.tag : v \in evicted} = {get_tag(trace[1])}
                /\ get_tag(trace[1]) \notin Resident(0)

C4_Witness ==
    C4_Shape /\ assoc = 2 /\ Len(trace) >= 4

\* C5: under LRU the line evicted by a miss on a full set is the resident
\* line whose latest access is the oldest; the line touched by a hit or an
\* install carries ts = total_accesses; with associativity 2 the tag
\* sequence A, B, A, C in one set evicts B and keeps A.
LastUse(tag, index, s) ==
    LET uses == {i \in 1..Len(s) : Pair(s[i]) = <<tag, index>>}
    IN  IF uses = {} THEN 0 ELSE CHOOSE i \in uses : \A j \in uses : j <= i

Before == SubSeq(trace, 1, Len(trace) - 1)

C5_ABAC ==
    /\ assoc = 2 /\ Len(trace) = 4
    /\ \A i \in 1..4 : get_index(trace[i]) = get_index(trace[1])
    /\ get_tag(trace[3]) = get_tag(trace[1])
    /\ Cardinality({get_tag(trace[1]), get_tag(trace[2]), get_tag(trace[4])}) = 3

C5_LruEvictsLeastRecent ==
    (subst = "L" /\ pc # "aborted" /\ trace # <<>>) =>
        /\ \A e \in Range(cache[LastIndex]) :
               e.tag = LastTag => e.ts = total_accesses
        /\ \A v \in evicted : \A e \in Range(cache[LastIndex]) :
               e.tag # LastTag =>
                   LastUse(v.tag, LastIndex, Before) < LastUse(e.tag, LastIndex, Before)
        /\ C5_ABAC => /\ {v.tag : v \in evicted} = {get_tag(trace[2])}
                      /\ get_tag(trace[1]) \in Resident(LastIndex)

C5_Witness ==
    subst = "L" /\ C5_ABAC /\ pc = "run" /\ evicted # {}
\* C6: every distinct (tag, index) pair accessed is counted as a compulsory
\* miss exactly once, on its first access: compulsory_misses is the number
\* of distinct pairs accessed and the size of seen_tags.
C6_CompulsoryOncePerPair ==
    /\ compulsory_misses = Cardinality(seen_tags)
    /\ compulsory_misses = Cardinality(PairsOf(Completed))
    /\ (pc # "aborted" /\ trace # <<>>) =>
           (outcome = "compulsory" <=> Pair(LastAddr) \notin PairsOf(Before))

C6_Witness ==
    /\ outcome \in {"capacity", "conflict"}
    /\ hits > 0
    /\ compulsory_misses < misses

\* C7: for every validated configuration and address access_cache completes
\* without raising: the decoded index is below num_sets.
C7_IndexInRange ==
    trace # <<>> => (LastIndex < nsets /\ outcome # "raised")

\* C8: whenever access_cache is not executing, returned or aborted, the two
\* counter identities hold, and an aborted access changed no counter.
C8_NoPartialFailure ==
    /\ hits + misses = total_accesses
    /\ compulsory_misses + capacity_misses + conflict_misses = misses
    /\ pc = "aborted" => total_accesses = Len(Completed)

\* C9: a miss on a pair already in seen_tags counts as capacity iff the
\* target set and every set hold associativity lines before the install,
\* and as conflict iff the target set does while another set has a free line.
C9_CapacityVsConflict ==
    [][\A a \in Addresses :
         (trace' = Append(trace, a) /\ misses' = misses + 1 /\ Pair(a) \in seen_tags)
         => LET i == get_index(a)
            IN  /\ (capacity_misses' = capacity_misses + 1) <=>
                       (/\ Len(cache[i]) = assoc
                        /\ \A s \in DOMAIN cache : Len(cache[s]) = assoc)
                /\ (conflict_misses' = conflict_misses + 1) <=>
                       (/\ Len(cache[i]) = assoc
                        /\ \E s \in DOMAIN cache \ {i} : Len(cache[s]) < assoc)]_vars

C9_Witness ==
    outcome = "capacity" /\ conflict_misses > 0 /\ nsets > 1

\* C10: the fourth classification branch is never taken: a pair of
\* seen_tags that is not resident always finds its set full.
C10_DefaultBranchUnreachable ==
    /\ outcome # "default"
    /\ \A p \in seen_tags :
           p[1] \notin Resident(p[2]) => Len(cache[p[2]]) >= assoc

C10_Witness ==
    /\ outcome \in {"capacity", "conflict"}
    /\ \E p \in seen_tags : p[1] \notin Resident(p[2])
\* the number of distinct tags of s that map to set index
WorkingSet(s, index) ==
    Cardinality({p \in PairsOf(s) : p[2] = index})

AllFull == \A i \in DOMAIN cache : Len(cache[i]) >= assoc

\* C11: when no set index receives more distinct tags than associativity,
\* capacity_misses and conflict_misses stay 0, nothing is evicted and misses
\* is the number of distinct (tag, index) pairs accessed.
C11_FitsInSets ==
    (\A i \in 0..(nsets - 1) : WorkingSet(Completed, i) <= assoc) =>
        /\ capacity_misses = 0
        /\ conflict_misses = 0
        /\ evicted = {}
        /\ \A p \in PairsOf(Completed) : p[1] \in Resident(p[2])
        /\ misses = Cardinality(PairsOf(Completed))

C11_Witness ==
    /\ \A i \in 0..(nsets - 1) : WorkingSet(Completed, i) <= assoc
    /\ \E i \in 0..(nsets - 1) : WorkingSet(Completed, i) = assoc /\ assoc = 2
    /\ hits > 1 /\ misses > 2

\* C12: every set holds at most associativity lines and the cache keeps
\* exactly num_sets sets.
C12_SetsBounded ==
    /\ DOMAIN cache = 0..(nsets - 1)
    /\ \A i \in DOMAIN cache : Len(cache[i]) <= assoc

C12_Witness ==
    evicted # {} /\ nsets = 3 /\ \E i \in DOMAIN cache : Len(cache[i]) < assoc

\* C13: num_sets=1, block_size=1, associativity=2, LRU, trace [0, 1, 0, 2]:
\* compulsory miss, compulsory miss, hit, capacity miss; final counters
\* total=4, hits=1, misses=3, compulsory=2, capacity=1, conflict=0.
C13_Config ==
    nsets = 1 /\ bsize = 1 /\ assoc = 2 /\ subst = "L"

C13_EndToEnd ==
    C13_Config =>
        /\ trace = <<0>> => outcome = "compulsory"
        /\ trace = <<0, 1>> => outcome = "compulsory"
        /\ trace = <<0, 1, 0>> => outcome = "hit"
        /\ trace = <<0, 1, 0, 2>> =>
               /\ outcome = "capacity"
               /\ total_accesses = 4 /\ hits = 1 /\ misses = 3
               /\ compulsory_misses = 2 /\ capacity_misses = 1
               /\ conflict_misses = 0

\* C13 as the code runs it: the fourth access is the first reference to tag
\* 2, so it is a compulsory miss; final counters total=4, hits=1, misses=3,
\* compulsory=3, capacity=0, conflict=0.
C13_EndToEndAmended ==
    C13_Config =>
        /\ trace = <<0>> => outcome = "compulsory"
        /\ trace = <<0, 1>> => outcome = "compulsory"
        /\ trace = <<0, 1, 0>> => outcome = "hit"
        /\ trace = <<0, 1, 0, 2>> =>
               /\ outcome = "compulsory"
               /\ total_accesses = 4 /\ hits = 1 /\ misses = 3
               /\ compulsory_misses = 3 /\ capacity_misses = 0
               /\ conflict_misses = 0
               /\ Resident(0) = {0, 2}

C13_Witness ==
    C13_Config /\ trace = <<0, 1, 0, 2>> /\ pc = "done"

\* C14: seen_tags never loses a pair, a hit leaves it unchanged, a miss adds
\* exactly the missing pair, and every resident line's pair is in it.
C14_Step ==
    /\ seen_tags \subseteq seen_tags'
    /\ misses' = misses => seen_tags' = seen_tags
    /\ misses' # misses =>
           seen_tags' = seen_tags \cup {Pair(trace'[Len(trace')])}
    /\ \A i \in DOMAIN cache' : \A e \in Range(cache'[i]) :
           <<e.tag, i>> \in seen_tags'

C14_SeenTagsGrows ==
    [][C14_Step]_vars

C14_Witness ==
    /\ Cardinality(seen_tags) >= 3
    /\ hits > 0
    /\ \E p \in seen_tags : p[1] \notin Resident(p[2])

\* C16: a hit adds 1 to total_accesses and to hits and changes nothing else
\* but the touched line's bookkeeping: miss counters, seen_tags, every set's
\* resident tags and length, and every other set are unchanged.
C16_Step ==
    (outcome' = "hit" /\ trace' # trace) =>
        LET index == get_index(trace'[Len(trace')])
        IN  /\ total_accesses' = total_accesses + 1
            /\ hits' = hits + 1
            /\ UNCHANGED <<misses, compulsory_misses, capacity_misses,
                           conflict_misses, seen_tags>>
            /\ \A i \in DOMAIN cache :
                   /\ {e.tag : e \in Range(cache'[i])} = {e.tag : e \in Range(cache[i])}
                   /\ Len(cache'[i]) = Len(cache[i])
                   /\ i # index => cache'[i] = cache[i]

C16_HitFrame ==
    [][C16_Step]_vars

C16_Witness ==
    outcome = "hit" /\ nsets > 1 /\ misses > 1 /\ hits > 1

\* C18: after a completed access the accessed tag is resident and valid in
\* the set its index selects, so repeating the address at once is a hit.
C18_AccessedIsResident ==
    (trace # <<>> /\ pc # "aborted") =>
        /\ \E e \in Range(cache[LastIndex]) : e.tag = LastTag /\ e.valid
        /\ (Len(trace) >= 2 /\ trace[Len(trace) - 1] = LastAddr) => outcome = "hit"

C18_Witness ==
    /\ Len(trace) >= 3 /\ trace[Len(trace) - 1] = LastAddr
    /\ outcome = "hit" /\ capacity_misses > 0

\* C19: no set holds two lines with the same tag, and the timestamps of the
\* lines of a set are pairwise distinct.
C19_DistinctLines ==
    \A i \in DOMAIN cache : \A j, k \in 1..Len(cache[i]) :
        j # k => /\ cache[i][j].tag # cache[i][k].tag
                 /\ cache[i][j].ts # cache[i][k].ts

C19_Witness ==
    /\ \E i \in DOMAIN cache : Len(cache[i]) = 2
    /\ hits > 0 /\ evicted # {}

\* C20: no set ever loses lines (a miss on a full set replaces exactly one
\* line), a full cache stays full and then conflict_misses stops growing;
\* with one set conflict_misses stays 0.
C20_Step ==
    /\ \A i \in DOMAIN cache :
           /\ Len(cache'[i]) >= Len(cache[i])
           /\ (Len(cache[i]) >= assoc /\ misses' # misses
                   /\ i = get_index(trace'[Len(trace')]))
                  => /\ Len(cache'[i]) = Len(cache[i])
                     /\ Cardinality({j \in 1..Len(cache[i]) :
                                        cache'[i][j] # cache[i][j]}) <= assoc
                     /\ Cardinality(Range(cache[i]) \ Range(cache'[i])) = 1
    /\ AllFull => (AllFull' /\ conflict_misses' = conflict_misses)
    /\ nsets = 1 => conflict_misses' = 0

C20_SetsNeverShrink ==
    [][C20_Step]_vars

C20_Witness ==
    AllFull /\ nsets > 1 /\ conflict_misses > 0 /\ outcome = "hit"
\* C15: every failure of the command-line layer (argument count, a
\* non-numeric or non-positive number, an unknown policy, a flag outside
\* {0, 1}, a missing trace file, an exception while reading or processing
\* the trace, a trailing short record) ends with exit status 1 after a
\* diagnostic and without print_stats; statistics are printed only after
\* the whole trace was processed.
BadArgs ==
    \/ argv.argc # 7
    \/ \E f \in {"nsets", "bsize", "assoc", "flag"} : ~argv[f].num
    \/ \E f \in {"nsets", "bsize", "assoc"} : argv[f].val < 1
    \/ argv.subst \notin {"R", "F", "L", "r", "f", "l"}
    \/ argv.flag.val \notin {0, 1}

Failed ==
    /\ exit_status = 1
    /\ diag # "none"
    /\ ~stats_printed
    /\ pc \in {"exit", "aborted"}

C15_FailFast ==
    /\ (pc # "start" /\ BadArgs) => Failed
    /\ (pc \notin {"start", "open"} /\ argv.file = "missing") => Failed
    /\ outcome = "raised" => Failed
    /\ pc \in {"exit", "aborted"} => Failed
    /\ exit_status = 1 => Failed
    /\ stats_printed =>
           /\ pc = "done" /\ exit_status = 0 /\ diag = "none"
           /\ ~BadArgs /\ argv.file = "ok" /\ outcome # "raised"
           /\ total_accesses = Len(trace)
    /\ pc = "done" => stats_printed

C15_Witness ==
    /\ pc = "exit" /\ diag = "read_error"
    /\ total_accesses >= 2 /\ ~stats_printed /\ exit_status = 1

\* C17: decoding splits the block number without loss: index is the low
\* index_bits bits of address >> offset_bits, tag the bits above, their
\* recombination gives address >> offset_bits back, two addresses share
\* (tag, index) exactly when they lie in the same block, and a block size or
\* set count of 1 takes 0 bits.
RECURSIVE bit_or(_, _)
bit_or(a, b) ==
    IF a = 0 THEN b
    ELSE IF b = 0 THEN a
    ELSE (IF a % 2 = 1 \/ b % 2 = 1 THEN 1 ELSE 0) + 2 * bit_or(a \div 2, b \div 2)

BlockNumber(address) == address \div (2 ^ offset_bits)

C17_LosslessSplit ==
    /\ \A i \in 1..Len(decoded) :
           LET d == decoded[i]
           IN  /\ d.index = BlockNumber(d.address) % (2 ^ index_bits)
               /\ d.tag = d.address \div (2 ^ (offset_bits + index_bits))
               /\ bit_or(d.tag * (2 ^ index_bits), d.index) = BlockNumber(d.address)
    /\ \A i, j \in 1..Len(decoded) :
           (decoded[i].tag = decoded[j].tag /\ decoded[i].index = decoded[j].index)
               <=> BlockNumber(decoded[i].address) = BlockNumber(decoded[j].address)
    /\ bsize = 1 => offset_bits = 0
    /\ nsets = 1 => index_bits = 0

C17_Witness ==
    /\ Len(decoded) = 2
    /\ nsets = 3 /\ bsize = 3
    /\ decoded[1].address # decoded[2].address
    /\ decoded[1].tag = decoded[2].tag /\ decoded[1].index = decoded[2].index
    /\ decoded[1].index = 3 /\ decoded[1].tag > 0

====
